---- MODULE Spec2Model ----
(***************************************************************************)
(* Incident-radiation app: the session state of one Streamlit session, the *)
(* input handlers of inputs.py, the orchestrator run_simulation of         *)
(* simulation.py and the script pass of app.py.                            *)
(*                                                                         *)
(* Numbers are fixed point.  Irradiance and radiance are integers, the row *)
(* coefficients are in 1/1000, durations are in 1/1000 hour (so that the   *)
(* division by 1000 of simulation.py:159 is exact), the ground reflectance *)
(* is in 1/20 (the widget's step, 0.05), distances are in 1/10 model unit. *)
(* A division of the code rounds down.                                     *)
(*                                                                         *)
(* A cached artifact is held as the arguments (and, for a tool run, the    *)
(* outcome) of the computation that stored it; mtx_data, int_mtx and       *)
(* RadiationValues expand it to the lists of numbers the code holds (the   *)
(* external tools are deterministic functions of their input).             *)
(***************************************************************************)
EXTENDS Integers, Sequences, FiniteSets, TLC

\* None, where the other values are strings
None == "None"

\* None, where the other values are lists or records: such a field holds
\* Absent or Some(value)
Absent == <<>>

Some(x) == <<x>>

Value(opt) == opt[1]

\* ------------------------------------------------------------------------
\* Bounds of the model
\* ------------------------------------------------------------------------

\* hours in the model's year (the code's year has 8760)
YearHours == 3

\* ------------------------------------------------------------------------
\* Helpers for Python lists
\* ------------------------------------------------------------------------

Min(a, b) == IF a <= b THEN a ELSE b

Max(a, b) == IF a >= b THEN a ELSE b

\* sum(xs)
\* the sum of xs[lo..hi], by halves (the lists are up to 1154 long)
RECURSIVE SumRange(_, _, _)
SumRange(xs, lo, hi) ==
    IF lo > hi THEN 0
    ELSE IF lo = hi THEN xs[lo]
    ELSE LET mid == (lo + hi) \div 2
         IN  SumRange(xs, lo, mid) + SumRange(xs, mid + 1, hi)

SumSeq(xs) == SumRange(xs, 1, Len(xs))

\* xs[a:b] with 0-based a, b: Python clamps a slice to the list
Slice(xs, a, b) == SubSeq(xs, Min(a, Len(xs)) + 1, Min(b, Len(xs)))

\* [f(x, y) for x, y in zip(xs, ys)] stops at the shorter list
ZipLen(xs, ys) == Min(Len(xs), Len(ys))

\* ------------------------------------------------------------------------
\* simulation.py: the patch tables
\* ------------------------------------------------------------------------

TREGENZA_PATCHES_PER_ROW == <<30, 30, 24, 24, 18, 12, 6>>

REINHART_PATCHES_PER_ROW == <<60, 60, 60, 60, 48, 48, 48, 48, 36, 36, 24, 24, 12, 12>>

\* steradians of a patch of each row, in 1/1000
TREGENZA_COEFFICIENTS == <<44, 42, 47, 41, 43, 45, 46, 34>>

REINHART_COEFFICIENTS == <<11, 11, 11, 11, 13, 12, 11, 10, 11, 10, 12, 9, 12, 6, 9>>

\* PATCHES_PER_ROW[1] and PATCHES_PER_ROW[2]: the rows and the zenith patch
TregenzaRows == Append(TREGENZA_PATCHES_PER_ROW, 1)

ReinhartRows == Append(REINHART_PATCHES_PER_ROW, 1)

PATCHES_PER_ROW(sky_density) ==
    IF sky_density = 1 THEN TregenzaRows ELSE ReinhartRows

PATCH_ROW_COEFF(sky_density) ==
    IF sky_density = 1 THEN TREGENZA_COEFFICIENTS ELSE REINHART_COEFFICIENTS

\* the number of sky patches of a density: 145 and 577
TregenzaCount == SumSeq(TregenzaRows)

ReinhartCount == SumSeq(ReinhartRows)

PatchCount(sky_density) == IF sky_density = 1 THEN TregenzaCount ELSE ReinhartCount

\* the 1-based row of the j-th patch of a dome (1..PatchCount) and its 0-based
\* place in that row, from the rows of the dome
RECURSIVE RowFrom(_, _, _)
RowFrom(rows, j, i) ==
    IF i >= Len(rows) \/ j <= rows[i] THEN i ELSE RowFrom(rows, j - rows[i], i + 1)

RECURSIVE PlaceFrom(_, _, _)
PlaceFrom(rows, j, i) ==
    IF i >= Len(rows) \/ j <= rows[i] THEN j - 1 ELSE PlaceFrom(rows, j - rows[i], i + 1)

\* a list given by a rule, written out
Listed(f) == SubSeq(f, 1, Len(f))

TregenzaPatches ==
    Listed([j \in 1 .. TregenzaCount |->
               [row |-> RowFrom(TregenzaRows, j, 1), place |-> PlaceFrom(TregenzaRows, j, 1)]])

ReinhartPatches ==
    Listed([j \in 1 .. ReinhartCount |->
               [row |-> RowFrom(ReinhartRows, j, 1), place |-> PlaceFrom(ReinhartRows, j, 1)]])

PatchRow(sky_density, j) ==
    IF sky_density = 1 THEN TregenzaPatches[j].row ELSE ReinhartPatches[j].row

PatchPlace(sky_density, j) ==
    IF sky_density = 1 THEN TregenzaPatches[j].place ELSE ReinhartPatches[j].place

\* ------------------------------------------------------------------------
\* Weather files, Wea objects and gendaymtx
\* ------------------------------------------------------------------------

WeatherFiles == {"a.epw", "b.stat"}

\* an EPW of a mild climate, and a file whose name ends in neither '.epw' nor
\* '.stat' (the uploader compares the extension without regard to case)
MildFiles == {"mild.epw"}

UnsupportedFiles == {"c.EPW"}

EndsWith(name, ext) ==
    \/ ext = ".epw" /\ name \in {"a.epw", "mild.epw"}
    \/ ext = ".stat" /\ name = "b.stat"

Hours == 1 .. YearHours

\* the hourly records of the EPW: a cold hour, a mild hour and a hot hour in
\* turn; the cold hours have the most direct and the hot hours the most
\* diffuse irradiance
EpwHour(h) ==
    [dir |-> IF h % 3 = 0 THEN 1 ELSE 2,
     dif |-> IF h % 3 = 1 THEN 1 ELSE IF h % 3 = 2 THEN 2 ELSE 3,
     temp |-> IF h % 3 = 1 THEN 5 ELSE IF h % 3 = 2 THEN 18 ELSE 30]

\* the hourly records of the mild EPW: every hour is at 14 or at 18 degrees
MildHour(h) == [dir |-> h, dif |-> 1, temp |-> IF h % 2 = 1 THEN 14 ELSE 18]

\* EPW(sky_file_path): the record of hour h of the file
EpwRecord(sky_file_path, h) ==
    IF sky_file_path \in MildFiles THEN MildHour(h) ELSE EpwHour(h)

\* Wea.from_epw_file: the annual direct and diffuse irradiance
WeaFromEpw(sky_file_path) ==
    [h \in Hours |-> [dir |-> EpwRecord(sky_file_path, h).dir,
                      dif |-> EpwRecord(sky_file_path, h).dif]]

\* Wea.from_stat_file: a clear sky from the monthly optical depths
WeaFromStat == [h \in Hours |-> [dir |-> 3, dif |-> 2]]

\* the run periods of the form: the whole year, or one hour (point in time)
FullYear == [h \in Hours |-> h]

PointInTime == <<2>>

RunPeriods == {FullYear, PointInTime}

\* wea.filter_by_analysis_period(run_period)
filter_by_analysis_period(wea, run_period) ==
    [k \in 1 .. Len(run_period) |-> wea[run_period[k]]]

\* the outcomes of one gendaymtx run: the whole matrix, a matrix cut short after
\* its first row of patches, or nothing on stdout
ToolOutcomes == {"ok", "short", "empty"}

\* the radiance gendaymtx gives sky patch j for one component of a Wea: a
\* function of the Wea's values that is 0 for a Wea of zeros; the direct
\* component falls on every second patch
WeaTotal(wea, comp) ==
    SumSeq([k \in 1 .. Len(wea) |-> IF comp = "dir" THEN wea[k].dir ELSE wea[k].dif])

PatchRadiance(total, comp, j) == IF comp = "dir" /\ j % 2 = 1 THEN 0 ELSE total

\* stdout of gendaymtx split at line breaks: 8 header lines, the ground patch,
\* the sky patches, and the empty string after the last line break
GendaymtxLines(wea, density, comp, outcome) ==
    LET n == IF outcome = "ok" THEN PatchCount(density)
             ELSE PATCHES_PER_ROW(density)[1]
        total == WeaTotal(wea, comp)
    IN  IF outcome = "empty" THEN <<"">>
        ELSE [k \in 1 .. 8 |-> "header"] \o <<0>>
             \o [j \in 1 .. n |-> PatchRadiance(total, comp, j)] \o <<"">>

\* ------------------------------------------------------------------------
\* simulation.py: the sky matrix
\* ------------------------------------------------------------------------

\* weight_val * PATCH_ROW_COEFF[sky_density][row_number] * wea_duration, for a
\* patch line whose R, G and B are all `line` (the three weights add up to 1);
\* row_number is 0-based
broadband_radiation(line, row_number, wea_duration, sky_density) ==
    line * PATCH_ROW_COEFF(sky_density)[row_number + 1] * wea_duration

\* the rows loop of parse_mtx_data from 0-based row i on, patch_counter lines in
RECURSIVE ParseRows(_, _, _, _, _)
ParseRows(patch_lines, i, patch_counter, wea_duration, sky_density) ==
    LET rows == PATCHES_PER_ROW(sky_density)
    IN  IF i >= Len(rows) THEN <<>>
        ELSE LET row_patch_count == rows[i + 1]
                 row_slice == Slice(patch_lines, patch_counter,
                                    patch_counter + row_patch_count)
             IN  Listed([k \in 1 .. Len(row_slice) |->
                     broadband_radiation(row_slice[k], i, wea_duration, sky_density)])
                 \o ParseRows(patch_lines, i + 1, patch_counter + row_patch_count,
                              wea_duration, sky_density)

\* data_lines[9:-1], then the rows loop
parse_mtx_data(data_lines, wea_duration, sky_density) ==
    LET patch_lines == Slice(data_lines, 9, Len(data_lines) - 1)
    IN  ParseRows(patch_lines, 0, 0, wea_duration, sky_density)

\* <<dir_vals, diff_vals>> of one Wea file
run_gendaymtx(wea, wea_duration, density, outcome) ==
    << parse_mtx_data(GendaymtxLines(wea, density, "dir", outcome), wea_duration, density),
       parse_mtx_data(GendaymtxLines(wea, density, "dif", outcome), wea_duration, density) >>

\* split_for_benefit as it would be without the band of 2 degrees
split_for_benefit_no_band(sky_file_path, bal_temp) ==
    LET zero == [dir |-> 0, dif |-> 0]
        temp(h) == EpwRecord(sky_file_path, h).temp
        full(h) == [dir |-> EpwRecord(sky_file_path, h).dir,
                    dif |-> EpwRecord(sky_file_path, h).dif]
    IN  << [h \in Hours |-> IF temp(h) < bal_temp THEN full(h) ELSE zero],
           [h \in Hours |-> IF temp(h) > bal_temp THEN full(h) ELSE zero] >>

\* split_for_benefit as it would be with the hours at the edges of the band
\* counted as heating and cooling hours
split_for_benefit_inclusive(sky_file_path, bal_temp) ==
    LET zero == [dir |-> 0, dif |-> 0]
        temp(h) == EpwRecord(sky_file_path, h).temp
        full(h) == [dir |-> EpwRecord(sky_file_path, h).dir,
                    dif |-> EpwRecord(sky_file_path, h).dif]
    IN  << [h \in Hours |-> IF temp(h) <= bal_temp - 2 THEN full(h) ELSE zero],
           [h \in Hours |-> IF temp(h) <= bal_temp - 2 THEN zero
                            ELSE IF temp(h) >= bal_temp + 2 THEN full(h)
                            ELSE zero] >>

\* the heating Wea (hours colder than bal_temp - 2) and the cooling Wea (hours
\* warmer than bal_temp + 2) of the EPW; every other hour is zero
split_for_benefit(sky_file_path, bal_temp) ==
    LET zero == [dir |-> 0, dif |-> 0]
        temp(h) == EpwRecord(sky_file_path, h).temp
        full(h) == [dir |-> EpwRecord(sky_file_path, h).dir,
                    dif |-> EpwRecord(sky_file_path, h).dif]
    IN  << [h \in Hours |-> IF temp(h) < bal_temp - 2 THEN full(h) ELSE zero],
           [h \in Hours |-> IF temp(h) < bal_temp - 2 THEN zero
                            ELSE IF temp(h) > bal_temp + 2 THEN full(h)
                            ELSE zero] >>

\* what compute_sky_matrix stores in session_state.sky_matrix: the arguments of
\* the call and the outcome of its gendaymtx runs
SkyRun(sky_file_path, run_period, high_sky_density, avg_irr, use_benefit, bal_temp, outcome) ==
    [file |-> sky_file_path, run_period |-> run_period, high |-> high_sky_density,
     avg_irr |-> avg_irr, use_benefit |-> use_benefit, bal_temp |-> bal_temp,
     outcome |-> outcome]

\* the compute_sky_matrix calls that fail before they store anything: a file
\* that is neither an EPW nor a STAT leaves wea_obj unbound
SkyRaises(run) == ~EndsWith(run.file, ".epw") /\ ~EndsWith(run.file, ".stat")

\* mtx_data = (dir_vals, diff_vals) of a stored run
mtx_data(run) ==
    LET density == IF run.high THEN 2 ELSE 1
        split == EndsWith(run.file, ".epw") /\ run.use_benefit
        wea_obj == IF EndsWith(run.file, ".epw")
                   THEN (IF run.use_benefit
                         THEN split_for_benefit(run.file, run.bal_temp)[1]
                         ELSE WeaFromEpw(run.file))
                   ELSE WeaFromStat
        wea_obj2 == split_for_benefit(run.file, run.bal_temp)[2]
        filtered == Len(run.run_period) # YearHours
        wea1 == IF filtered THEN filter_by_analysis_period(wea_obj, run.run_period)
                ELSE wea_obj
        wea2 == IF filtered THEN filter_by_analysis_period(wea_obj2, run.run_period)
                ELSE wea_obj2
        hours == IF filtered THEN Len(run.run_period) ELSE YearHours
        wea_duration == IF run.avg_irr THEN 1000 ELSE hours
        benefit == run_gendaymtx(wea1, wea_duration, density, run.outcome)
        harm == run_gendaymtx(wea2, wea_duration, density, run.outcome)
    IN  IF ~split THEN benefit
        ELSE << Listed([k \in 1 .. ZipLen(benefit[1], harm[1]) |->
                           benefit[1][k] - harm[1][k]]),
                Listed([k \in 1 .. ZipLen(benefit[2], harm[2]) |->
                           benefit[2][k] - harm[2][k]]) >>

\* ------------------------------------------------------------------------
\* simulation.py: the intersection matrix
\* ------------------------------------------------------------------------

\* A study mesh is the list of its sensors, each named by the way it faces:
\* "up", "down", or "wall" (a vertical face).  A context is the list of its
\* surfaces: "far" (in no sensor's way), "roof" (over the sensors, 0.5 above
\* their faces), "box" (closed around them) or "self" (a face the sensors lie
\* on, in the way of every ray that starts on it).
SensorKinds == {"up", "down", "wall"}

\* the quarter as it would be if a turn did not come back to where it began
QuarterUnwrapped(k, n, north) == ((4 * k) \div n) + (north \div 90)

\* the quarter of the compass of the k-th of n patches of a row, after the
\* rotation of the dome by north degrees
Quarter(k, n, north) == (((4 * k) \div n) + (north \div 90)) % 4

\* A direction is held by its height z (the row of its patch, in units in
\* which the zenith is the number of rows; below the horizon it is negative)
\* and the quarter q of the compass it points to; k and n are the place of its
\* patch in its row and the length of that row.
\* view_sphere.tregenza_dome_vectors and view_sphere.reinhart_dome_vectors
dome_vectors(high_res) ==
    LET density == IF high_res THEN 2 ELSE 1
    IN  Listed([p \in 1 .. PatchCount(density) |->
            LET r == PatchRow(density, p)
                k == PatchPlace(density, p)
                n == PATCHES_PER_ROW(density)[r]
            IN  [z |-> r, q |-> Quarter(k, n, 0), k |-> k, n |-> n]])

\* vec.rotate_xy(north_angle)
rotate_xy(vec, north) == [vec EXCEPT !.q = Quarter(vec.k, vec.n, north)]

\* vec.reverse()
reverse(vec) == [vec EXCEPT !.z = 0 - vec.z, !.q = (vec.q + 2) % 4]

\* the directions as they would be with the ground vectors taken from the
\* dome before its rotation
vectors_ground_unrotated(north, high_res) ==
    LET dome == dome_vectors(high_res)
        lb_vecs == IF north # 0
                   THEN Listed([p \in 1 .. Len(dome) |-> rotate_xy(dome[p], north)])
                   ELSE dome
    IN  lb_vecs \o Listed([p \in 1 .. Len(dome) |-> reverse(dome[p])])

\* vectors = lb_vecs + lb_grnd_vecs: the dome rotated by north, then the
\* reverse of each of its vectors
vectors(north, high_res) ==
    LET dome == dome_vectors(high_res)
        lb_vecs == IF north # 0
                   THEN Listed([p \in 1 .. Len(dome) |-> rotate_xy(dome[p], north)])
                   ELSE dome
    IN  lb_vecs \o Listed([p \in 1 .. Len(lb_vecs) |-> reverse(lb_vecs[p])])

\* cos_theta of a sensor and a direction
CosTheta(kind, vec) ==
    CASE kind = "up" -> vec.z
      [] kind = "down" -> 0 - vec.z
      [] OTHER -> IF vec.q \in {0, 1} THEN 1 ELSE 0 - 1

\* a ray from the sensor, moved offset_dist along its normal, toward direction j
\* meets a surface of the context
Occluded(context_geo, offset_dist, density, j) ==
    LET P == PatchCount(density)
    IN  \E i \in 1 .. Len(context_geo) :
            \/ context_geo[i] = "box"
            \/ context_geo[i] = "self" /\ offset_dist = 0
            \/ context_geo[i] = "roof" /\ j <= P /\ PatchRow(density, j) >= 2
               /\ offset_dist < 5

\* what compute_intersection_matrix stores in session_state.intersection_matrix
IntRun(study_mesh, context_geo, offset_dist, north, high_res) ==
    [mesh |-> study_mesh, context |-> context_geo, offset_dist |-> offset_dist,
     north |-> north, high_res |-> high_res]

\* int_mtx of a stored run: one row of 2P weights for each sensor
int_mtx(run) ==
    LET density == IF run.high_res THEN 2 ELSE 1
        vecs == vectors(run.north, run.high_res)
    IN  [i \in 1 .. Len(run.mesh) |->
            [j \in 1 .. Len(vecs) |->
                LET cos_theta == CosTheta(run.mesh[i], vecs[j])
                IN  IF cos_theta <= 0 THEN 0
                    ELSE IF Occluded(run.context, run.offset_dist, density, j) THEN 0
                    ELSE cos_theta]]

\* combine: sum(r * w for r, w in zip(pt_rel, all_rad))
ZipSumProd(pt_rel, all_rad) ==
    SumSeq(Listed([k \in 1 .. ZipLen(pt_rel, all_rad) |-> pt_rel[k] * all_rad[k]]))

\* total_sky_rad as it would be with the diffuse values taken off the direct
TotalSkyRadDifference(mtx) ==
    Listed([k \in 1 .. ZipLen(mtx[1], mtx[2]) |-> mtx[1][k] - mtx[2][k]])

\* total_sky_rad of run_simulation
TotalSkyRad(mtx) ==
    Listed([k \in 1 .. ZipLen(mtx[1], mtx[2]) |-> mtx[1][k] + mtx[2][k]])

\* ground_value as it would be without `* ground_reflectance`
GroundValueUnscaled(total_sky_rad, ground_reflectance) ==
    SumSeq(total_sky_rad) \div Len(total_sky_rad)

\* (sum(total_sky_rad) / len(total_sky_rad)) * ground_reflectance
GroundValue(total_sky_rad, ground_reflectance) ==
    ((SumSeq(total_sky_rad) \div Len(total_sky_rad)) * ground_reflectance) \div 20

\* all_rad as it would be without the ground patches
AllRadSkyOnly(total_sky_rad, ground_reflectance) == total_sky_rad

\* all_rad = total_sky_rad + [ground_value] * len(total_sky_rad)
AllRad(total_sky_rad, ground_reflectance) ==
    LET ground_value == GroundValue(total_sky_rad, ground_reflectance)
    IN  total_sky_rad \o [k \in 1 .. Len(total_sky_rad) |-> ground_value]

\* ------------------------------------------------------------------------
\* The session: st.session_state, the widgets and the place in the script
\* ------------------------------------------------------------------------

VARIABLES
    host,      \* get_host() or 'web': fixed for the session
    ss,        \* st.session_state, as initialize() lays it out
    w,         \* the values the widgets and components of the page hold
    pc,        \* "idle" between script runs, else the next call of main
    button_on, \* the 'Compute Radiation' button is on the page
    calls,     \* the steps the last run_simulation took, in order
    changed,   \* the widgets get_inputs found changed in the run under way
    error,     \* the exception that ended the last run of the script, or "none"
    focus,     \* the group of widgets the user of this session works with
    sessions,  \* the sessions that share the server, by user_id (several sessions)
    files      \* the files under target_folder/data, by path (several sessions)

vars == <<host, ss, w, pc, button_on, calls, changed, error, focus, sessions, files>>

Hosts == {"web", "rhino"}

\* one page alone: no other session, and the data folder is left out
NoSessions == [u \in {} |-> 0]

NoFiles == [p \in {} |-> 0]

IsCad(h) == h \in {"rhino", "sketchup"}

\* the Honeybee models a user uploads: the study mesh of their sensor grids and
\* the context of their faces and shades
HbModels == {"m1", "m2", "m3", "bare", "nogrid"}

\* the models the user of a session has at hand
UploadedModels == {"m1", "bare", "nogrid"}

ModelMesh(m) ==
    CASE m = "m1" -> <<"up", "down">>
      [] m = "m2" -> <<"wall">>
      [] m = "m3" -> <<"wall", "up">>
      [] m = "bare" -> <<"up">>
      [] OTHER -> <<>>

ModelContext(m) ==
    CASE m = "m1" -> <<"roof">>
      [] m = "m2" -> <<"box">>
      [] m = "m3" -> <<"far">>
      [] OTHER -> <<>>

\* what the CAD components hand over: nothing yet (None), a dictionary whose
\* 'geometry' is None ("cleared"), or the selected faces
GeometryData == {"cleared", "faces"}

\* face.mesh_grid(grid_size) of the selected study face, which is 2.0 wide: one
\* sensor per grid cell; the AssertionError of a grid that is too coarse is
\* caught by the caller, who then has no mesh
MeshGrid(grid_size) ==
    IF grid_size > 20 THEN <<>> ELSE [k \in 1 .. (20 \div grid_size) |-> "wall"]

\* initialize()
initialize ==
    [sky_file_path |-> None, north |-> 0, high_sky_density |-> FALSE,
     average_irradiance |-> FALSE, use_benefit |-> FALSE,
     balance_temperature |-> 16, run_period |-> FullYear, sky_matrix |-> Absent,
     simulation_geo |-> Absent, sim_context_geo |-> Absent, context_geo |-> Absent,
     hb_model |-> None, ground_reflectance |-> 4, grid_size |-> 10,
     offset_distance |-> 0, intersection_matrix |-> Absent,
     override_min_max |-> FALSE, legend_min |-> 0, legend_max |-> 100,
     legend_seg_count |-> 11, radiation_values |-> Absent, vtk_path |-> Absent]

\* the values of the widgets of a new page: the value= of each widget
WidgetDefaults ==
    [weather_data |-> None, hbjson_data |-> None, geometry_data |-> None,
     context_data |-> None, in_grid_size |-> 10, in_off_dist |-> 10,
     in_g_ref |-> 4, in_north |-> 0, sky_density |-> FALSE,
     avg_irradiance |-> FALSE, use_benefit |-> FALSE, in_bal_temp |-> 16,
     in_run_period |-> FullYear, over_min_max |-> FALSE, in_leg_min |-> 0,
     in_leg_max |-> 100, in_seg_count |-> 11, auto_rerun |-> FALSE,
     in_ap_display |-> FALSE, button |-> FALSE]

\* ------------------------------------------------------------------------
\* inputs.py: the handlers, as functions of the session state
\* ------------------------------------------------------------------------

\* new_sky_matrix() as it would be if it dropped the intersection matrix too
new_sky_matrix_and_intersection(s) ==
    [s EXCEPT !.sky_matrix = Absent, !.intersection_matrix = Absent,
              !.radiation_values = Absent, !.vtk_path = Absent]

\* new_sky_matrix() as it would be without `vtk_path = None`
new_sky_matrix_keeps_vtk(s) ==
    [s EXCEPT !.sky_matrix = Absent, !.radiation_values = Absent]

\* new_sky_matrix()
new_sky_matrix(s) ==
    [s EXCEPT !.sky_matrix = Absent, !.radiation_values = Absent,
              !.vtk_path = Absent]

\* the resets as they would be without `radiation_values = None`
ResetIntersectionOnly(s) ==
    [s EXCEPT !.intersection_matrix = Absent, !.vtk_path = Absent]

\* the resets as they would be without `intersection_matrix = None`
ResetResultOnly(s) ==
    [s EXCEPT !.radiation_values = Absent, !.vtk_path = Absent]

\* the resets as they would be with `sky_matrix = None` added
ResetIntersectionAndSky(s) ==
    [s EXCEPT !.sky_matrix = Absent, !.intersection_matrix = Absent,
              !.radiation_values = Absent, !.vtk_path = Absent]

\* the three resets that open new_model, new_geometry and new_context and that
\* get_inputs makes for the offset distance and the north
ResetIntersection(s) ==
    [s EXCEPT !.intersection_matrix = Absent, !.radiation_values = Absent,
              !.vtk_path = Absent]

\* new_sky_file() as it would be without its call of new_sky_matrix
new_sky_file_keeps_matrix(s, weather_data) ==
    [s EXCEPT !.sky_file_path = weather_data]

\* new_sky_file(): the on_change of the weather file uploader
new_sky_file(s, weather_data) ==
    [new_sky_matrix(s) EXCEPT !.sky_file_path = weather_data]

\* new_model() raises ValueError: the model has no sensor grid with a mesh
new_model_raises(hbjson_data) == ModelMesh(hbjson_data) = <<>>

\* new_model(): the on_change of the model component; when it raises, what it
\* did before the raise stays
new_model(s, hbjson_data) ==
    LET s1 == [ResetIntersection(s) EXCEPT !.hb_model = hbjson_data]
    IN  IF new_model_raises(hbjson_data) THEN s1
        ELSE [s1 EXCEPT !.simulation_geo = Some(ModelMesh(hbjson_data)),
                        !.context_geo = Some(ModelContext(hbjson_data))]

\* new_geometry(): the on_change of the study geometry component
new_geometry(s, geometry_data) ==
    LET s1 == ResetIntersection(s)
        geo_meshes == MeshGrid(s1.grid_size)
    IN  IF geometry_data = None THEN s1
        ELSE IF geometry_data = "cleared" THEN [s1 EXCEPT !.simulation_geo = Absent]
        ELSE IF Len(geo_meshes) # 0
             THEN [s1 EXCEPT !.simulation_geo = Some(geo_meshes),
                             !.sim_context_geo = Some(<<"self">>)]
        ELSE [s1 EXCEPT !.simulation_geo = Absent, !.sim_context_geo = Absent]

\* new_context(): the on_change of the context geometry component
new_context(s, context_data) ==
    LET s1 == ResetIntersection(s)
    IN  IF context_data = "cleared" THEN [s1 EXCEPT !.simulation_geo = Absent]
        ELSE [s1 EXCEPT !.context_geo = Some(<<"far">>)]

\* get_model(): the script's own call of new_model while there is no mesh
get_model(s, hbjson_data) ==
    IF s.simulation_geo = Absent /\ hbjson_data # None THEN new_model(s, hbjson_data)
    ELSE s

get_model_raises(s, hbjson_data) ==
    s.simulation_geo = Absent /\ hbjson_data # None /\ new_model_raises(hbjson_data)

\* get_study_geometry()
get_study_geometry(s, geometry_data) ==
    IF s.simulation_geo = Absent /\ geometry_data # None
    THEN new_geometry(s, geometry_data) ELSE s

\* get_context_geometry() as it would be without `context_geo is None`
get_context_geometry_always(s, context_data) ==
    IF context_data # None THEN new_context(s, context_data) ELSE s

\* get_context_geometry()
get_context_geometry(s, context_data) ==
    IF s.context_geo = Absent /\ context_data # None
    THEN new_context(s, context_data) ELSE s

\* get_inputs(), lines 307-344: the geometry of the host
GeometryInputs(s, wd, h) ==
    IF IsCad(h)
    THEN LET s1 == IF wd.in_grid_size # s.grid_size
                   THEN new_geometry([s EXCEPT !.grid_size = wd.in_grid_size],
                                     wd.geometry_data)
                   ELSE s
             s2 == IF wd.in_off_dist # s1.offset_distance
                   THEN ResetIntersection(
                            [s1 EXCEPT !.offset_distance = wd.in_off_dist])
                   ELSE s1
             s3 == get_study_geometry(s2, wd.geometry_data)
         IN  get_context_geometry(s3, wd.context_data)
    ELSE get_model(s, wd.hbjson_data)

\* get_inputs(), lines 346-411: the ground reflectance and the sky
SkyInputs(s, wd) ==
    LET s1 == IF wd.in_g_ref # s.ground_reflectance
              THEN new_sky_matrix([s EXCEPT !.ground_reflectance = wd.in_g_ref])
              ELSE s
        s2 == IF wd.in_north # s1.north
              THEN ResetIntersection([s1 EXCEPT !.north = wd.in_north])
              ELSE s1
        s3 == IF wd.sky_density # s2.high_sky_density
              THEN [new_sky_matrix([s2 EXCEPT !.high_sky_density = wd.sky_density])
                       EXCEPT !.intersection_matrix = Absent]
              ELSE s2
        s4 == IF wd.avg_irradiance # s3.average_irradiance
              THEN new_sky_matrix([s3 EXCEPT !.average_irradiance = wd.avg_irradiance])
              ELSE s3
        epw == s4.sky_file_path # None /\ EndsWith(s4.sky_file_path, ".epw")
        s5 == IF epw /\ wd.use_benefit # s4.use_benefit
              THEN [new_sky_matrix([s4 EXCEPT !.use_benefit = wd.use_benefit])
                       EXCEPT !.intersection_matrix = Absent]
              ELSE s4
    IN  IF epw /\ wd.use_benefit /\ wd.in_bal_temp # s5.balance_temperature
        THEN [new_sky_matrix([s5 EXCEPT !.balance_temperature = wd.in_bal_temp])
                 EXCEPT !.intersection_matrix = Absent]
        ELSE s5

\* get_inputs(), lines 413-442: the run period and the legend
PeriodAndLegendInputs(s, wd) ==
    LET s1 == IF wd.in_run_period # s.run_period
              THEN new_sky_matrix([s EXCEPT !.run_period = wd.in_run_period])
              ELSE s
        s2 == IF wd.over_min_max # s1.override_min_max
              THEN new_sky_matrix([s1 EXCEPT !.override_min_max = wd.over_min_max])
              ELSE s1
        s3 == IF wd.in_leg_min # s2.legend_min
              THEN new_sky_matrix([s2 EXCEPT !.legend_min = wd.in_leg_min])
              ELSE s2
        s4 == IF wd.in_leg_max # s3.legend_max
              THEN new_sky_matrix([s3 EXCEPT !.legend_max = wd.in_leg_max])
              ELSE s3
    IN  IF wd.in_seg_count # s4.legend_seg_count
        THEN new_sky_matrix([s4 EXCEPT !.legend_seg_count = wd.in_seg_count])
        ELSE s4

\* the widgets whose value get_inputs finds different from the session's
ChangedWidgets(s, wd, h) ==
    LET epw == s.sky_file_path # None /\ EndsWith(s.sky_file_path, ".epw")
    IN  {k \in DOMAIN wd :
            CASE k = "in_grid_size" -> IsCad(h) /\ wd.in_grid_size # s.grid_size
              [] k = "in_off_dist" -> IsCad(h) /\ wd.in_off_dist # s.offset_distance
              [] k = "in_g_ref" -> wd.in_g_ref # s.ground_reflectance
              [] k = "in_north" -> wd.in_north # s.north
              [] k = "sky_density" -> wd.sky_density # s.high_sky_density
              [] k = "avg_irradiance" -> wd.avg_irradiance # s.average_irradiance
              [] k = "use_benefit" -> epw /\ wd.use_benefit # s.use_benefit
              [] k = "in_bal_temp" ->
                    epw /\ wd.use_benefit /\ wd.in_bal_temp # s.balance_temperature
              [] k = "in_run_period" -> wd.in_run_period # s.run_period
              [] k = "over_min_max" -> wd.over_min_max # s.override_min_max
              [] k = "in_leg_min" -> wd.in_leg_min # s.legend_min
              [] k = "in_leg_max" -> wd.in_leg_max # s.legend_max
              [] k = "in_seg_count" -> wd.in_seg_count # s.legend_seg_count
              [] OTHER -> FALSE}

\* get_inputs(host, container)
get_inputs(s, wd, h) == PeriodAndLegendInputs(SkyInputs(GeometryInputs(s, wd, h), wd), wd)

\* get_inputs() raises: the only raise is new_model's, at its start on the web
get_inputs_raises(s, wd, h) == ~IsCad(h) /\ get_model_raises(s, wd.hbjson_data)

\* Streamlit drops the value of a widget the script did not draw: the benefit
\* checkbox is drawn for an EPW only, the balance temperature under a checked
\* benefit checkbox only
DrawnWidgets(s, wd) ==
    LET epw == s.sky_file_path # None /\ EndsWith(s.sky_file_path, ".epw")
    IN  [wd EXCEPT !.use_benefit = IF epw THEN @ ELSE FALSE,
                   !.in_bal_temp = IF epw /\ wd.use_benefit THEN @ ELSE 16]

\* ------------------------------------------------------------------------
\* simulation.py: run_simulation
\* ------------------------------------------------------------------------

\* a list that may be None, as a list
OrEmpty(opt) == IF opt = Absent THEN <<>> ELSE Value(opt)

\* app.py, lines 36-41: the offset (0.1 in a CAD host) and the context that main
\* hands to run_simulation
MainOffset(h) == IF IsCad(h) THEN 1 ELSE 0

MainContext(s) == OrEmpty(s.sim_context_geo) \o OrEmpty(s.context_geo)

\* compute_sky_matrix(...) reads the session's inputs and stores the matrix
compute_sky_matrix(s, outcome) ==
    [s EXCEPT !.sky_matrix =
        Some(SkyRun(s.sky_file_path, s.run_period, s.high_sky_density,
                    s.average_irradiance, s.use_benefit, s.balance_temperature,
                    outcome))]

\* compute_intersection_matrix(...) stores the matrix
compute_intersection_matrix(s, study_mesh, context_geo, offset_dist, north, high_res) ==
    [s EXCEPT !.intersection_matrix =
        Some(IntRun(study_mesh, context_geo, offset_dist, north, high_res))]

\* lines 275-277 as they would be without `not context_geo`
ReturnsEarlyWithoutContext(s) ==
    \/ s.sky_file_path = None
    \/ s.simulation_geo = Absent
    \/ s.radiation_values # Absent

\* lines 275-277: there is nothing to simulate, or the result is there
ReturnsEarly(s) ==
    \/ s.sky_file_path = None
    \/ s.simulation_geo = Absent
    \/ MainContext(s) = <<>>
    \/ s.radiation_values # Absent

\* lines 298-302: one value for each row of the intersection matrix
Combine(mtx, all_rad) ==
    Listed([i \in 1 .. Len(mtx) |-> ZipSumProd(mtx[i], all_rad)])

\* what lines 285-302 store in session_state.radiation_values: the sky matrix
\* and the intersection matrix they combine, and the ground reflectance
RadRun(sky_matrix, intersection_matrix, ground_reflectance) ==
    [sky |-> sky_matrix, int |-> intersection_matrix,
     ground_reflectance |-> ground_reflectance]

\* the radiation values of a stored combination
RadiationValues(run) ==
    Combine(int_mtx(run.int),
            AllRad(TotalSkyRad(mtx_data(run.sky)), run.ground_reflectance))

\* run_simulation(...) as it would be without `if sky_matrix is None`
run_simulation_fresh_sky(s, h, triggered, outcome) ==
    LET s1 == compute_sky_matrix(s, outcome)
        total_sky_rad == TotalSkyRad(mtx_data(Value(s1.sky_matrix)))
        high_res == Len(total_sky_rad) # 145
        s2 == IF s1.intersection_matrix = Absent
              THEN compute_intersection_matrix(
                       s1, Value(s.simulation_geo), MainContext(s), MainOffset(h),
                       s.north, high_res)
              ELSE s1
        s3 == [s2 EXCEPT !.radiation_values =
                  Some(RadRun(Value(s2.sky_matrix), Value(s2.intersection_matrix),
                              s.ground_reflectance))]
        vis_call == IF s.intersection_matrix = Absent THEN <<"vis">> ELSE <<>>
    IN  IF ReturnsEarly(s) \/ ~triggered
        THEN [s |-> s, calls |-> <<>>, raised |-> FALSE, error |-> "none"]
        ELSE IF Len(total_sky_rad) = 0
        THEN [s |-> s1, calls |-> <<"sky">>, raised |-> TRUE,
              error |-> "ZeroDivisionError"]
        ELSE [s |-> s3, calls |-> <<"sky">> \o vis_call \o <<"combine">>,
              raised |-> FALSE, error |-> "none"]

\* run_simulation(...), called by main with the session's values: the session
\* state it leaves, the steps it took, and whether it raised
run_simulation(s, h, triggered, outcome) ==
    LET s1 == IF s.sky_matrix = Absent THEN compute_sky_matrix(s, outcome) ELSE s
        total_sky_rad == TotalSkyRad(mtx_data(Value(s1.sky_matrix)))
        high_res == Len(total_sky_rad) # 145
        s2 == IF s1.intersection_matrix = Absent
              THEN compute_intersection_matrix(
                       s1, Value(s.simulation_geo), MainContext(s), MainOffset(h),
                       s.north, high_res)
              ELSE s1
        s3 == [s2 EXCEPT !.radiation_values =
                  Some(RadRun(Value(s2.sky_matrix), Value(s2.intersection_matrix),
                              s.ground_reflectance))]
        sky_call == IF s.sky_matrix = Absent THEN <<"sky">> ELSE <<>>
        vis_call == IF s.intersection_matrix = Absent THEN <<"vis">> ELSE <<>>
    IN  IF ReturnsEarly(s) \/ ~triggered
        THEN [s |-> s, calls |-> <<>>, raised |-> FALSE, error |-> "none"]
        ELSE IF s.sky_matrix = Absent /\ SkyRaises(Value(s1.sky_matrix))
        THEN [s |-> s, calls |-> sky_call, raised |-> TRUE,
              error |-> "UnboundLocalError"]
        ELSE IF Len(total_sky_rad) = 0
        THEN [s |-> s1, calls |-> sky_call, raised |-> TRUE,
              error |-> "ZeroDivisionError"]
        ELSE [s |-> s3, calls |-> sky_call \o vis_call \o <<"combine">>,
              raised |-> FALSE, error |-> "none"]

\* ------------------------------------------------------------------------
\* outputs.py: display_results
\* ------------------------------------------------------------------------

RECURSIVE MinTo(_, _)
MinTo(xs, n) == IF n = 1 THEN xs[1] ELSE Min(xs[n], MinTo(xs, n - 1))

RECURSIVE MaxTo(_, _)
MaxTo(xs, n) == IF n = 1 THEN xs[1] ELSE Max(xs[n], MaxTo(xs, n - 1))

Abs(x) == IF x < 0 THEN 0 - x ELSE x

\* what get_vtk_model_result stores in session_state.vtk_path: the values and
\* the settings that write_result_files and get_vtk_config read
VtkRun(s) ==
    [values |-> Value(s.radiation_values), avg_irr |-> s.average_irradiance,
     hb_model |-> s.hb_model, override_min_max |-> s.override_min_max,
     legend_min |-> s.legend_min, legend_max |-> s.legend_max,
     use_benefit |-> s.use_benefit]

\* get_vtk_config(): the legend of the viewer of a stored visualization
get_vtk_config(run) ==
    LET values == RadiationValues(run.values)
        lo == MinTo(values, Len(values))
        hi == MaxTo(values, Len(values))
        extrema == Max(Abs(lo), hi)
        min_val == IF run.override_min_max THEN run.legend_min
                   ELSE IF run.use_benefit THEN 0 - extrema ELSE lo
        max_val == IF run.override_min_max THEN run.legend_max
                   ELSE IF run.use_benefit THEN extrema ELSE hi
    IN  [min |-> min_val,
         max |-> IF min_val = 0 /\ max_val = 0 THEN 1 ELSE max_val,
         color_set |-> IF run.use_benefit THEN "benefit_harm" ELSE "original",
         unit |-> IF run.avg_irr THEN "W/m2" ELSE "kWh/m2"]

\* `not rad_values`: there is no result, or it is an empty list
NoValues(s) ==
    s.radiation_values = Absent \/ Len(int_mtx(Value(s.radiation_values).int)) = 0

\* display_results(...): the viewer is drawn on the web, or in a CAD host when
\* 'Display Results in App' is checked; it is written when there is none
display_results(s, wd, h) ==
    LET draws == h = "web" \/ (IsCad(h) /\ wd.in_ap_display)
    IN  IF draws /\ ~NoValues(s) /\ s.vtk_path = Absent
        THEN [s EXCEPT !.vtk_path = Some(VtkRun(s))]
        ELSE s

\* ------------------------------------------------------------------------
\* The page: what a user can do between two runs of the script
\* ------------------------------------------------------------------------

\* The widgets whose value the script reads (the file uploader, the components
\* and the button have actions of their own), in the groups of the page.  The
\* user of one session uploads files, sends geometry, triggers the simulation
\* and works with the widgets of one group.
WebGroups ==
    { {"in_g_ref", "in_north"},
      {"sky_density", "avg_irradiance"},
      {"use_benefit", "in_bal_temp"},
      {"in_run_period"},
      {"over_min_max", "in_leg_min"} }

CadGroups ==
    { {"in_grid_size", "in_off_dist"},
      {"in_g_ref", "in_north"} }

\* the values a user gives a widget
WidgetValues(k) ==
    CASE k = "in_grid_size" -> {10, 30}
      [] k = "in_off_dist" -> {10, 20}
      [] k = "in_g_ref" -> {4, 6}
      [] k = "in_north" -> {0, 90}
      [] k = "in_bal_temp" -> {16, 20}
      [] k = "in_run_period" -> RunPeriods
      [] k = "in_leg_min" -> {0, 10}
      [] OTHER -> BOOLEAN

\* the widget is on the page the last run drew, and enabled
OnPage(k) ==
    LET epw == ss.sky_file_path # None /\ EndsWith(ss.sky_file_path, ".epw")
    IN  CASE k \in {"in_grid_size", "in_off_dist", "in_ap_display"} -> IsCad(host)
          [] k = "use_benefit" -> epw
          [] k = "in_bal_temp" -> epw /\ w.use_benefit
          [] k = "in_leg_min" -> w.over_min_max
          [] OTHER -> TRUE

\* a user changes a widget: Streamlit runs the script again
ChangeWidget(k, v) ==
    /\ pc = "idle"
    /\ k \in focus \cup {"auto_rerun"}
    /\ OnPage(k)
    /\ v # w[k]
    /\ w' = [w EXCEPT ![k] = v]
    /\ pc' = "inputs"
    /\ error' = "none"
    /\ UNCHANGED <<host, ss, button_on, calls, changed, focus, sessions, files>>

\* a user presses 'Compute Radiation': the button is True in the run that follows
ClickCompute ==
    /\ pc = "idle"
    /\ button_on
    /\ w' = [w EXCEPT !.button = TRUE]
    /\ pc' = "inputs"
    /\ error' = "none"
    /\ UNCHANGED <<host, ss, button_on, calls, changed, focus, sessions, files>>

\* a user uploads or removes the weather file: new_sky_file, then the script
NewSkyFile(f) ==
    /\ pc = "idle"
    /\ f # w.weather_data
    /\ w' = [w EXCEPT !.weather_data = f]
    /\ ss' = new_sky_file(ss, f)
    /\ pc' = "inputs"
    /\ error' = "none"
    /\ UNCHANGED <<host, button_on, calls, changed, focus, sessions, files>>

\* a user uploads a model: new_model, then the script
NewModel(m) ==
    /\ pc = "idle"
    /\ ~IsCad(host)
    /\ m # w.hbjson_data
    /\ w' = [w EXCEPT !.hbjson_data = m]
    /\ ss' = new_model(ss, m)
    /\ pc' = "inputs"
    /\ error' = IF new_model_raises(m) THEN "ValueError" ELSE "none"
    /\ UNCHANGED <<host, button_on, calls, changed, focus, sessions, files>>

\* the CAD host sends the study geometry: new_geometry, then the script
NewGeometry(g) ==
    /\ pc = "idle"
    /\ IsCad(host)
    /\ g # w.geometry_data
    /\ w' = [w EXCEPT !.geometry_data = g]
    /\ ss' = new_geometry(ss, g)
    /\ pc' = "inputs"
    /\ error' = "none"
    /\ UNCHANGED <<host, button_on, calls, changed, focus, sessions, files>>

\* the CAD host sends the context geometry: new_context, then the script
NewContext(c) ==
    /\ pc = "idle"
    /\ IsCad(host)
    /\ c # w.context_data
    /\ w' = [w EXCEPT !.context_data = c]
    /\ ss' = new_context(ss, c)
    /\ pc' = "inputs"
    /\ error' = "none"
    /\ UNCHANGED <<host, button_on, calls, changed, focus, sessions, files>>

\* ------------------------------------------------------------------------
\* app.py: one run of main, call by call
\* ------------------------------------------------------------------------

\* get_inputs(platform, in_container); a raise ends the run
GetInputs ==
    /\ pc = "inputs"
    /\ IF get_inputs_raises(ss, w, host)
       THEN /\ ss' = get_model(ss, w.hbjson_data)
            /\ w' = [w EXCEPT !.button = FALSE]
            /\ button_on' = FALSE
            /\ changed' = {}
            /\ error' = "ValueError"
            /\ pc' = "idle"
       ELSE /\ ss' = get_inputs(ss, w, host)
            /\ w' = DrawnWidgets(ss, w)
            /\ button_on' = button_on
            /\ changed' = ChangedWidgets(ss, w, host)
            /\ error' = "none"
            /\ pc' = "simulate"
    /\ UNCHANGED <<host, calls, focus, sessions, files>>

\* run_simulation(...); a raise ends the run
RunSimulation ==
    /\ pc = "simulate"
    /\ \E outcome \in IF ss.sky_matrix = Absent THEN ToolOutcomes ELSE {"ok"} :
         LET triggered == w.auto_rerun \/ w.button
             run == run_simulation(ss, host, triggered, outcome)
         IN  /\ ss' = run.s
             /\ calls' = run.calls
             /\ error' = run.error
             /\ pc' = IF run.raised THEN "idle" ELSE "display"
             /\ changed' = IF run.raised THEN {} ELSE changed
             /\ button_on' = (/\ ~ReturnsEarly(ss)
                              /\ ~w.auto_rerun
                              /\ (~w.button \/ run.raised))
    /\ w' = [w EXCEPT !.button = FALSE]
    /\ UNCHANGED <<host, focus, sessions, files>>

\* display_results(...)
DisplayResults ==
    /\ pc = "display"
    /\ ss' = display_results(ss, w, host)
    /\ pc' = "idle"
    /\ changed' = {}
    /\ UNCHANGED <<host, w, button_on, calls, error, focus, sessions, files>>

Init ==
    /\ \/ host = "web" /\ focus \in WebGroups
       \/ host = "rhino" /\ focus \in CadGroups
    /\ ss = initialize
    /\ w = WidgetDefaults
    /\ pc = "inputs"
    /\ button_on = FALSE
    /\ calls = <<>>
    /\ changed = {}
    /\ error = "none"
    /\ sessions = NoSessions
    /\ files = NoFiles

Next ==
    \/ \E k \in DOMAIN WidgetDefaults : \E v \in WidgetValues(k) : ChangeWidget(k, v)
    \/ ClickCompute
    \/ \E f \in WeatherFiles \cup {None} : NewSkyFile(f)
    \/ \E m \in UploadedModels : NewModel(m)
    \/ \E g \in GeometryData : NewGeometry(g)
    \/ \E c \in GeometryData : NewContext(c)
    \/ GetInputs
    \/ RunSimulation
    \/ DisplayResults

Spec == Init /\ [][Next]_vars

\* ------------------------------------------------------------------------
\* One call of run_simulation on a session that is ready for it: a weather
\* file and a model are loaded, the inputs are drawn from bounded sets, and the
\* button was pressed
\* ------------------------------------------------------------------------

ReadyModels == {"m1", "m2"}

ReadyReflectances == {0, 6}

ReadyNorths == {0, 90, 360}

\* the inputs of the ready sessions: every combination of the inputs of the
\* sky and the result on the two weather files; the mild EPW; a file of an
\* unsupported type; and the north angles on a model with a wall sensor
ReadyInputs ==
    {i \in [f : WeatherFiles, m : ReadyModels, d : BOOLEAN, b : BOOLEAN,
            p : RunPeriods, g : ReadyReflectances, n : {0}] :
        i.b => EndsWith(i.f, ".epw")}
    \cup [f : MildFiles, m : {"m1"}, d : BOOLEAN, b : BOOLEAN,
          p : {FullYear}, g : {6}, n : {0}]
    \cup [f : UnsupportedFiles, m : {"m1"}, d : {FALSE}, b : {FALSE},
          p : RunPeriods, g : {6}, n : {0}]
    \cup [f : {"b.stat"}, m : {"m3"}, d : BOOLEAN, b : {FALSE},
          p : {FullYear}, g : {6}, n : ReadyNorths]

ReadySession(i) ==
    [initialize EXCEPT !.sky_file_path = i.f, !.hb_model = i.m,
                       !.simulation_geo = Some(ModelMesh(i.m)),
                       !.context_geo = Some(ModelContext(i.m)),
                       !.high_sky_density = i.d, !.use_benefit = i.b,
                       !.run_period = i.p, !.ground_reflectance = i.g,
                       !.north = i.n]

ReadyWidgets(i) ==
    [WidgetDefaults EXCEPT !.weather_data = i.f, !.hbjson_data = i.m,
                           !.sky_density = i.d, !.use_benefit = i.b,
                           !.in_run_period = i.p, !.in_g_ref = i.g,
                           !.in_north = i.n, !.button = TRUE]

\* the user of one ready session goes on to change the ground reflectance
ReadyFocus(i) ==
    IF i.f = "b.stat" /\ i.m = "m1" /\ ~i.d /\ i.p = FullYear /\ i.g = 6
    THEN {"in_g_ref"} ELSE {}

InitCombine ==
    /\ host = "web"
    /\ \E i \in ReadyInputs :
         /\ ss = ReadySession(i)
         /\ w = ReadyWidgets(i)
         /\ focus = ReadyFocus(i)
    /\ pc = "simulate"
    /\ button_on = TRUE
    /\ calls = <<>>
    /\ changed = {}
    /\ error = "none"
    /\ sessions = NoSessions
    /\ files = NoFiles

NextCombine ==
    \/ \E v \in WidgetValues("in_g_ref") : ChangeWidget("in_g_ref", v)
    \/ ClickCompute
    \/ GetInputs
    \/ RunSimulation
    \/ DisplayResults

SpecCombine == InitCombine /\ [][NextCombine]_vars

\* ------------------------------------------------------------------------
\* Several sessions on one server: each has a session state of its own and a
\* user_id; all write under target_folder/data.  A path is the directory under
\* data and the name of the file in it.
\* ------------------------------------------------------------------------

\* initialize(), lines 26-27: the user_id of a session, distinct from any other
UserIds == {"u1", "u2"}

\* the directory of the simulation as it would be if all sessions shared one
sim_folder_shared(user_id) == "shared"

\* os.path.join(target_folder, 'data', user_id)
sim_folder(user_id) == user_id

\* f'./{target_folder}/data/{user_id}/{weather_file.name}'
epw_path(user_id, weather_data) == [dir |-> user_id, name |-> weather_data]

\* sky_file_path.as_posix().replace('.epw', '.wea'), and the same for '.stat'
wea_file(sky_file) ==
    [dir |-> sky_file.dir,
     name |-> CASE sky_file.name = "a.epw" -> "a.wea"
                [] sky_file.name = "mild.epw" -> "mild.wea"
                [] OTHER -> "b.wea"]

\* '{}_harm.wea'.format(wea_file.replace('.wea', ''))
wea_file2(wea) ==
    [dir |-> wea.dir,
     name |-> CASE wea.name = "a.wea" -> "a_harm.wea"
                [] wea.name = "mild.wea" -> "mild_harm.wea"
                [] OTHER -> "b_harm.wea"]

\* the files compute_intersection_matrix writes and has the tools write in
\* sim_folder
SceneFiles ==
    {"geometry.rad", "vectors.rad", "vectors.mod", "sensors.pts", "scene.oct", "results.mtx"}

\* the files display_results writes: in res_folder the values of the sensor
\* grid and grids_info.json, in its parent config.json, the model and the
\* viewer's file
ResultFiles ==
    {"results/grid.res", "results/grids_info.json", "config.json", "model.hbjson", "model.vtkjs"}

\* the files of names in directory dir, written by session `by` with data
Written(by, dir, names, data) ==
    [p \in {[dir |-> dir, name |-> n] : n \in names} |-> [by |-> by, data |-> data]]

\* the files after the writes new, which replace what was at their paths
Overlay(old, new) ==
    [p \in DOMAIN old \cup DOMAIN new |-> IF p \in DOMAIN new THEN new[p] ELSE old[p]]

\* new_sky_file(), lines 95-100: the uploaded file is saved
new_sky_file_writes(user_id, weather_data) ==
    IF weather_data = None THEN NoFiles
    ELSE LET epw == epw_path(user_id, weather_data)
         IN  Written(user_id, epw.dir, {epw.name}, weather_data)

\* compute_sky_matrix(), lines 160 and 168: the Wea of the benefit, and the Wea
\* of the harm when there is one
compute_sky_matrix_writes(user_id, s) ==
    LET wea == wea_file(epw_path(user_id, s.sky_file_path))
        wea2 == wea_file2(wea)
        run == Value(compute_sky_matrix(s, "ok").sky_matrix)
    IN  Written(user_id, wea.dir,
                IF EndsWith(s.sky_file_path, ".epw") /\ s.use_benefit
                THEN {wea.name, wea2.name} ELSE {wea.name},
                run)

\* compute_intersection_matrix(), lines 208-253: the scene, the vectors, the
\* sensors, the octree and the matrix of the run
compute_intersection_matrix_writes(user_id, run) ==
    Written(user_id, sim_folder(user_id), SceneFiles, run)

\* display_results(), lines 185-192
display_results_writes(user_id, s) ==
    Written(user_id, user_id, ResultFiles, VtkRun(s))

\* the widgets of a page on which the user changed nothing since the last run
SessionWidgets(s) ==
    [WidgetDefaults EXCEPT !.weather_data = s.sky_file_path,
                           !.hbjson_data = s.hb_model,
                           !.in_g_ref = s.ground_reflectance,
                           !.in_north = s.north,
                           !.sky_density = s.high_sky_density,
                           !.avg_irradiance = s.average_irradiance,
                           !.use_benefit = s.use_benefit,
                           !.in_bal_temp = s.balance_temperature,
                           !.in_run_period = s.run_period]

InCalls(c, step) == \E k \in 1 .. Len(c) : c[k] = step

\* a user uploads a weather file: new_sky_file, then a run of the script in
\* which nothing is triggered
SessionNewSkyFile(u, f) ==
    LET s == sessions[u].s
        s1 == new_sky_file(s, f)
        s2 == get_inputs(s1, SessionWidgets(s1), "web")
        s3 == run_simulation(s2, "web", FALSE, "ok").s
    IN  /\ sessions[u].at = "idle"
        /\ f # s.sky_file_path
        /\ sessions' = [sessions EXCEPT ![u].s = display_results(s3, SessionWidgets(s1), "web")]
        /\ files' = Overlay(files, new_sky_file_writes(u, f))
        /\ UNCHANGED <<host, ss, w, pc, button_on, calls, changed, error, focus>>

\* a user presses 'Compute Radiation': the script runs get_inputs and
\* run_simulation as far as the end of the rcontrib run, when there is one;
\* the tools of these sessions do not fail
SessionCompute(u) ==
    LET s == sessions[u].s
        s1 == get_inputs(s, SessionWidgets(s), "web")
        run == run_simulation(s1, "web", TRUE, "ok")
        sky_writes == IF InCalls(run.calls, "sky")
                      THEN compute_sky_matrix_writes(u, s1) ELSE NoFiles
    IN  /\ sessions[u].at = "idle"
        /\ IF InCalls(run.calls, "vis")
           THEN /\ sessions' = [sessions EXCEPT
                       ![u].s = [s1 EXCEPT !.sky_matrix = run.s.sky_matrix],
                       ![u].at = "load"]
                /\ files' = Overlay(Overlay(files, sky_writes),
                                    compute_intersection_matrix_writes(
                                        u, Value(run.s.intersection_matrix)))
           ELSE /\ sessions' = [sessions EXCEPT
                       ![u].s = run.s,
                       ![u].at = IF run.raised THEN "idle" ELSE "display"]
                /\ files' = Overlay(files, sky_writes)
        /\ UNCHANGED <<host, ss, w, pc, button_on, calls, changed, error, focus>>

\* compute_intersection_matrix(), lines 255-260, and run_simulation, lines
\* 298-302: the matrix is read from results.mtx and combined with the sky
SessionLoad(u) ==
    LET s == sessions[u].s
        int_run == files[[dir |-> sim_folder(u), name |-> "results.mtx"]].data
    IN  /\ sessions[u].at = "load"
        /\ sessions' = [sessions EXCEPT
               ![u].s = [s EXCEPT !.intersection_matrix = Some(int_run),
                                  !.radiation_values =
                                      Some(RadRun(Value(s.sky_matrix), int_run,
                                                  s.ground_reflectance))],
               ![u].at = "display"]
        /\ UNCHANGED <<host, ss, w, pc, button_on, calls, changed, error, focus, files>>

\* display_results(...) of a session
SessionDisplay(u) ==
    LET s == sessions[u].s
        s1 == display_results(s, SessionWidgets(s), "web")
    IN  /\ sessions[u].at = "display"
        /\ sessions' = [sessions EXCEPT ![u].s = s1, ![u].at = "idle"]
        /\ files' = IF s1.vtk_path # s.vtk_path
                    THEN Overlay(files, display_results_writes(u, s))
                    ELSE files
        /\ UNCHANGED <<host, ss, w, pc, button_on, calls, changed, error, focus>>

\* the sessions begin with a weather file and a model loaded, each its own
SessionInput(u) ==
    [f |-> IF u = "u1" THEN "a.epw" ELSE "b.stat", m |-> IF u = "u1" THEN "m1" ELSE "m2",
     d |-> FALSE, b |-> FALSE, p |-> FullYear, g |-> 6, n |-> 0]

InitSessions ==
    /\ host = "web"
    /\ ss = initialize
    /\ w = WidgetDefaults
    /\ pc = "idle"
    /\ button_on = FALSE
    /\ calls = <<>>
    /\ changed = {}
    /\ error = "none"
    /\ focus = {}
    /\ sessions = [u \in UserIds |-> [s |-> ReadySession(SessionInput(u)), at |-> "idle"]]
    /\ files = NoFiles

NextSessions ==
    \/ \E u \in UserIds : \E f \in WeatherFiles : SessionNewSkyFile(u, f)
    \/ \E u \in UserIds : SessionCompute(u)
    \/ \E u \in UserIds : SessionLoad(u)
    \/ \E u \in UserIds : SessionDisplay(u)

SpecSessions == InitSessions /\ [][NextSessions]_vars

\* ------------------------------------------------------------------------
\* Properties
\* ------------------------------------------------------------------------

Triggered == w.auto_rerun \/ w.button

SkyCached == ss.sky_matrix # Absent

IntersectionCached == ss.intersection_matrix # Absent

ResultCached == ss.radiation_values # Absent

ArtifactsUnchanged ==
    /\ ss'.sky_matrix = ss.sky_matrix
    /\ ss'.intersection_matrix = ss.intersection_matrix
    /\ ss'.radiation_values = ss.radiation_values

\* the SkyVector of a stored combination: the value of each sky patch (direct
\* plus diffuse), then as many ground patches, each the mean sky value times
\* the ground reflectance
SkyVector(run) ==
    LET mtx == mtx_data(run.sky)
        n == Len(mtx[1])
        sky == Listed([j \in 1 .. n |-> mtx[1][j] + mtx[2][j]])
        ground == ((SumSeq(sky) \div n) * run.ground_reflectance) \div 20
    IN  Listed([j \in 1 .. 2 * n |-> IF j <= n THEN sky[j] ELSE ground])

\* the sum over j of row[j] * vec[j], all the columns of the row
RECURSIVE WeightedSum(_, _, _, _)
WeightedSum(row, vec, lo, hi) ==
    IF lo > hi THEN 0
    ELSE IF lo = hi THEN row[lo] * vec[lo]
    ELSE LET mid == (lo + hi) \div 2
         IN  WeightedSum(row, vec, lo, mid) + WeightedSum(row, vec, mid + 1, hi)

\* C1: the stored RadiationResult has one value for each sensor row of the
\* IntersectionMatrix, and the value of row i is the sum over all the columns j
\* of M[i][j] * S[j], S being the SkyVector (sky patches, then ground patches)
\* and the row having as many columns as S has entries.
C1_ResultIsWeightedSum ==
    ResultCached =>
        LET run == Value(ss.radiation_values)
            M == int_mtx(run.int)
            S == SkyVector(run)
            R == RadiationValues(run)
        IN  /\ Len(R) = Len(M)
            /\ \A i \in 1 .. Len(M) :
                  Len(M[i]) = Len(S) => R[i] = WeightedSum(M[i], S, 1, Len(S))

\* a result is stored whose rows and SkyVector agree in length, one row is all
\* zero and yields 0, another yields a value that is not 0
C1_Witness ==
    /\ pc = "display"
    /\ ResultCached
    /\ LET run == Value(ss.radiation_values)
           M == int_mtx(run.int)
           S == SkyVector(run)
           R == RadiationValues(run)
       IN  /\ Len(M) > 0
           /\ \A i \in 1 .. Len(M) : Len(M[i]) = Len(S)
           /\ run.ground_reflectance > 0
           /\ \E i \in 1 .. Len(M) : R[i] # 0

\* C2: once a run has stored a RadiationResult, a further run of the script
\* in which no input has changed leaves the sky matrix, the IntersectionMatrix
\* and the RadiationResult as they are, and run_simulation invokes neither the
\* Sky Discretizer nor the Visibility Engine.
C2_Idempotent ==
    [][/\ (pc = "inputs" /\ ResultCached /\ ChangedWidgets(ss, w, host) = {})
            => ArtifactsUnchanged
       /\ (pc = "simulate" /\ ResultCached)
            => (ArtifactsUnchanged /\ \A k \in 1 .. Len(calls') :
                                         calls'[k] \notin {"sky", "vis"})]_vars

\* run_simulation is entered, triggered, with a result stored and no input changed
C2_Witness ==
    /\ pc = "simulate"
    /\ ResultCached
    /\ Triggered
    /\ changed = {}

\* C3: a run of the script in which only the ground reflectance has changed
\* clears the sky matrix and the RadiationResult and leaves the stored
\* IntersectionMatrix as it is; the triggered run_simulation that follows runs
\* the Sky Discretizer and the combination and not the Visibility Engine.
C3_GroundReflectance ==
    [][/\ (pc = "inputs" /\ pc' = "simulate" /\ changed' = {"in_g_ref"})
            => /\ ss'.sky_matrix = Absent
               /\ ss'.radiation_values = Absent
               /\ ss'.intersection_matrix = ss.intersection_matrix
       /\ (pc = "simulate" /\ IntersectionCached)
            => /\ ss'.intersection_matrix = ss.intersection_matrix
               /\ \A k \in 1 .. Len(calls') : calls'[k] # "vis"
       /\ (pc = "simulate" /\ changed = {"in_g_ref"} /\ IntersectionCached
             /\ Triggered /\ ss.sky_file_path # None /\ ss.simulation_geo # Absent
             /\ MainContext(ss) # <<>>)
            => \/ calls' = <<"sky", "combine">> /\ ss'.radiation_values # Absent
               \/ calls' = <<"sky">> /\ pc' = "idle"]_vars

\* after a change of the ground reflectance alone, with the intersection
\* matrix stored, a triggered run has run the sky and the combination only
C3_Witness ==
    /\ pc = "display"
    /\ changed = {"in_g_ref"}
    /\ calls = <<"sky", "combine">>
    /\ IntersectionCached
    /\ ResultCached

\* C4: run_simulation changes nothing and takes no step when the weather
\* input, the study mesh or the context geometry is absent, or when neither
\* auto-rerun nor the button triggers it.
C4_NoOp ==
    [][(/\ pc = "simulate"
        /\ \/ ss.sky_file_path = None
           \/ ss.simulation_geo = Absent
           \/ /\ ss.sim_context_geo = Absent \/ Value(ss.sim_context_geo) = <<>>
              /\ ss.context_geo = Absent \/ Value(ss.context_geo) = <<>>
           \/ ~Triggered)
          => (ArtifactsUnchanged /\ calls' = <<>> /\ ss' = ss)]_vars

\* run_simulation is entered, triggered, with a weather file and a study mesh
\* and no context geometry
C4_Witness ==
    /\ pc = "simulate"
    /\ Triggered
    /\ ss.sky_file_path # None
    /\ ss.simulation_geo # Absent
    /\ MainContext(ss) = <<>>

\* C5: a triggered run_simulation with its inputs present and no result stored
\* takes its steps in the order sky matrix, IntersectionMatrix, combination;
\* it takes the first only when no sky matrix is stored and the second only
\* when no IntersectionMatrix is stored, and unless a step raises all three
\* artifacts are stored when it ends.
C5_Order ==
    [][(/\ pc = "simulate"
        /\ Triggered
        /\ ss.sky_file_path # None
        /\ ss.simulation_geo # Absent
        /\ MainContext(ss) # <<>>
        /\ ~ResultCached)
          => /\ SkyCached => ss'.sky_matrix = ss.sky_matrix
             /\ IntersectionCached => ss'.intersection_matrix = ss.intersection_matrix
             /\ IF pc' = "display"
                THEN /\ calls' = (IF SkyCached THEN <<>> ELSE <<"sky">>)
                                 \o (IF IntersectionCached THEN <<>> ELSE <<"vis">>)
                                 \o <<"combine">>
                     /\ ss'.sky_matrix # Absent
                     /\ ss'.intersection_matrix # Absent
                     /\ ss'.radiation_values # Absent
                ELSE /\ calls' = (IF SkyCached THEN <<>> ELSE <<"sky">>)
                     /\ ss'.radiation_values = Absent]_vars

\* a run has taken the three steps in order and stored the three artifacts
C5_Witness ==
    /\ pc = "display"
    /\ calls = <<"sky", "vis", "combine">>
    /\ SkyCached
    /\ IntersectionCached
    /\ ResultCached

\* C6: whenever a RadiationResult is stored, a sky matrix and an
\* IntersectionMatrix are stored too.
C6_ResultImpliesInputs == ResultCached => (SkyCached /\ IntersectionCached)

\* a result recombined from a stored sky matrix after the intersection matrix
\* was dropped and computed again
C6_Witness ==
    /\ ResultCached
    /\ SkyCached
    /\ IntersectionCached
    /\ calls = <<"vis", "combine">>
    /\ pc = "idle"

SkyInputWidgets ==
    {"in_run_period", "sky_density", "in_g_ref", "use_benefit", "in_bal_temp"}

\* C7: a new or removed weather file, and a change of the run period, of the
\* sky density, of the ground reflectance, of the benefit checkbox or of the
\* balance temperature, each clear the stored sky matrix.
C7_SkyInvalidation ==
    [][/\ (pc = "idle" /\ w'.weather_data # w.weather_data)
            => ss'.sky_matrix = Absent
       /\ (pc = "inputs" /\ pc' = "simulate" /\ changed' \cap SkyInputWidgets # {})
            => ss'.sky_matrix = Absent]_vars

\* a change of the run period alone has cleared the sky matrix of an earlier
\* run, whose intersection matrix is still stored
C7_Witness ==
    /\ pc = "simulate"
    /\ changed = {"in_run_period"}
    /\ ~SkyCached
    /\ IntersectionCached

\* C8 as the specification states it: a run of the script in which the north
\* angle has changed clears the stored sky matrix.
C8_NorthClearsSky ==
    [][(pc = "inputs" /\ pc' = "simulate" /\ "in_north" \in changed')
          => ss'.sky_matrix = Absent]_vars

\* C8: a run of the script in which only the north angle has changed leaves
\* the stored sky matrix as it is and clears the IntersectionMatrix and the
\* RadiationResult; the triggered run_simulation that follows, with a sky
\* matrix stored, does not run the Sky Discretizer and, unless it raises, runs
\* the Visibility Engine with the new north angle and the combination.
C8_NorthKeepsSky ==
    [][/\ (pc = "inputs" /\ pc' = "simulate" /\ changed' = {"in_north"})
            => /\ ss'.sky_matrix = ss.sky_matrix
               /\ ss'.intersection_matrix = Absent
               /\ ss'.radiation_values = Absent
       /\ (pc = "simulate" /\ changed = {"in_north"} /\ SkyCached /\ Triggered
             /\ ss.sky_file_path # None /\ ss.simulation_geo # Absent
             /\ MainContext(ss) # <<>>)
            => /\ ss'.sky_matrix = ss.sky_matrix
               /\ \/ /\ calls' = <<"vis", "combine">>
                     /\ Value(ss'.intersection_matrix).north = ss.north
                     /\ ss'.radiation_values # Absent
                  \/ calls' = <<>> /\ pc' = "idle"]_vars

\* a change of the north angle alone has left a stored sky matrix and cleared
\* the intersection matrix
C8_Witness ==
    /\ pc = "simulate"
    /\ changed = {"in_north"}
    /\ SkyCached
    /\ ~IntersectionCached
    /\ ~ResultCached

IntersectionInputWidgets ==
    {"in_grid_size", "sky_density", "in_off_dist", "in_north"}

\* C9: a new study geometry or model, a new context geometry, and a change of
\* the grid size, of the sky density, of the offset distance or of the north
\* angle, each clear the stored IntersectionMatrix.
C9_IntersectionInvalidation ==
    [][/\ (pc = "idle" /\ \/ w'.hbjson_data # w.hbjson_data
                          \/ w'.geometry_data # w.geometry_data
                          \/ w'.context_data # w.context_data)
            => ss'.intersection_matrix = Absent
       /\ (pc = "inputs" /\ pc' = "simulate"
             /\ changed' \cap IntersectionInputWidgets # {})
            => ss'.intersection_matrix = Absent]_vars

\* a change of the offset distance alone has cleared the intersection matrix
\* of an earlier run, whose sky matrix is still stored
C9_Witness ==
    /\ pc = "simulate"
    /\ changed = {"in_off_dist"}
    /\ SkyCached
    /\ Value(ss.sky_matrix).outcome = "ok"
    /\ ~IntersectionCached

\* C10: when a sky matrix and an IntersectionMatrix are both stored, both were
\* computed for the sky density that is selected now.
C10_SameDensity ==
    (SkyCached /\ IntersectionCached)
        => /\ Value(ss.sky_matrix).high = ss.high_sky_density
           /\ Value(ss.intersection_matrix).high_res = ss.high_sky_density

\* the SkyVector run_simulation combines in a stored result: all_rad
StoredSkyVector ==
    LET run == Value(ss.radiation_values)
    IN  AllRad(TotalSkyRad(mtx_data(run.sky)), run.ground_reflectance)

\* C11: the SkyVector of a stored result has 2 * P entries, P = 145 for the
\* low density and P = 577 for the high density that is selected.
C11_SkyVectorLength ==
    ResultCached =>
        Len(StoredSkyVector) = 2 * (IF ss.high_sky_density THEN 577 ELSE 145)

\* C12: no sky matrix is stored from a gendaymtx run that failed (nothing, or
\* only a part of the matrix, on stdout).
C12_NoBrokenSkyCached == SkyCached => Value(ss.sky_matrix).outcome = "ok"

\* C13: no RadiationResult is stored from an IntersectionMatrix row and a
\* SkyVector of different lengths.
C13_NoResultFromMismatch ==
    ResultCached =>
        LET M == int_mtx(Value(ss.radiation_values).int)
        IN  \A i \in 1 .. Len(M) : Len(M[i]) = Len(StoredSkyVector)

\* C14: a model without a sensor grid that has a mesh, or a study geometry of
\* which no face can be meshed at the grid size, when it is supplied leaves the
\* stored IntersectionMatrix and RadiationResult as they are.
C14_GeometryErrorKeepsCache ==
    [][(/\ pc = "idle"
        /\ \/ /\ w'.hbjson_data # w.hbjson_data
              /\ new_model_raises(w'.hbjson_data)
           \/ /\ w'.geometry_data # w.geometry_data
              /\ w'.geometry_data = "faces"
              /\ MeshGrid(ss.grid_size) = <<>>)
          => /\ ss'.intersection_matrix = ss.intersection_matrix
             /\ ss'.radiation_values = ss.radiation_values]_vars

\* the exceptions the code raises itself, with a message of its own
DescriptiveErrors == {"ValueError"}

\* C15: a run of compute_sky_matrix on a weather file whose name ends in
\* neither '.epw' nor '.stat' ends in a descriptive error, and leaves the sky
\* matrix, the IntersectionMatrix and the RadiationResult as they were.
C15_UnsupportedReported ==
    (ss.sky_file_path \in UnsupportedFiles /\ pc = "idle" /\ calls = <<"sky">>)
        => /\ error \in DescriptiveErrors
           /\ ~SkyCached /\ ~IntersectionCached /\ ~ResultCached

\* C16: with benefit mode off every value of a stored RadiationResult is at
\* least 0; a value below 0 is stored only with benefit mode on.
C16_NonNegativeWithoutBenefit ==
    (ResultCached /\ ~ss.use_benefit) =>
        LET R == RadiationValues(Value(ss.radiation_values))
        IN  \A i \in 1 .. Len(R) : R[i] >= 0

\* with benefit mode off a result is stored that has a value above 0
C16_Witness ==
    /\ pc = "display"
    /\ ResultCached
    /\ ~ss.use_benefit
    /\ LET R == RadiationValues(Value(ss.radiation_values))
       IN  \E i \in 1 .. Len(R) : R[i] > 0

\* every hour of the EPW is within 2 degrees of the balance temperature
DeadBand(sky_file_path, bal_temp) ==
    \A h \in Hours :
        /\ bal_temp - 2 <= EpwRecord(sky_file_path, h).temp
        /\ EpwRecord(sky_file_path, h).temp <= bal_temp + 2

AllZero(xs) == \A k \in 1 .. Len(xs) : xs[k] = 0

\* C17: in benefit mode, for an EPW of which every hour is within 2 degrees of
\* the balance temperature, the heating and the cooling series are all zero
\* and so are the sky-patch values and the ground value of the sky matrix.
C17_DeadBandIsZero ==
    (/\ SkyCached
     /\ Value(ss.sky_matrix).use_benefit
     /\ EndsWith(Value(ss.sky_matrix).file, ".epw")
     /\ DeadBand(Value(ss.sky_matrix).file, Value(ss.sky_matrix).bal_temp))
        => LET run == Value(ss.sky_matrix)
               split == split_for_benefit(run.file, run.bal_temp)
               mtx == mtx_data(run)
               total == TotalSkyRad(mtx)
           IN  /\ \A h \in Hours :
                     /\ split[1][h].dir = 0 /\ split[1][h].dif = 0
                     /\ split[2][h].dir = 0 /\ split[2][h].dif = 0
               /\ AllZero(mtx[1]) /\ AllZero(mtx[2])
               /\ AllZero(total)
               /\ Len(total) > 0 => GroundValue(total, ss.ground_reflectance) = 0

\* a result is stored in benefit mode for the EPW whose hours are all at the
\* edges of the band (14 and 18 degrees around 16)
C17_Witness ==
    /\ pc = "display"
    /\ ResultCached
    /\ ss.use_benefit
    /\ ss.sky_file_path \in MildFiles
    /\ DeadBand(ss.sky_file_path, ss.balance_temperature)
    /\ Value(ss.sky_matrix).outcome = "ok"

\* C18: the SkyVector of a stored result is the sky-patch values followed by
\* as many ground-patch entries, each the mean of the sky-patch values times
\* the ground reflectance that is selected; with a ground reflectance of 0
\* each is 0.
C18_GroundPatches ==
    ResultCached =>
        LET run == Value(ss.radiation_values)
            sky == TotalSkyRad(mtx_data(run.sky))
            n == Len(sky)
            mean == SumSeq(sky) \div n
            all == StoredSkyVector
        IN  /\ run.ground_reflectance = ss.ground_reflectance
            /\ Len(all) = 2 * n
            /\ \A k \in 1 .. n :
                  /\ all[k] = sky[k]
                  /\ all[n + k] = (mean * ss.ground_reflectance) \div 20
                  /\ ss.ground_reflectance = 0 => all[n + k] = 0

\* the result was computed again, by the sky and the combination, after the
\* ground reflectance went from 0.2 to 0.3
C18_Witness ==
    /\ pc = "display"
    /\ ResultCached
    /\ focus = {"in_g_ref"}
    /\ ss.ground_reflectance = 6
    /\ calls = <<"sky", "combine">>

C20_BenefitOnlyForEpw ==
    ss.use_benefit => (ss.sky_file_path # None /\ EndsWith(ss.sky_file_path, ".epw"))

\* C21: every file under data was written by the session whose user_id names
\* its directory; a step of one session leaves the files of the other
\* session's directory as they are; and what a session has cached is its own:
\* its IntersectionMatrix is that of its own mesh and context, and the file of
\* its visualization holds what it wrote there.
C21_SessionsIsolated ==
    /\ [](\A p \in DOMAIN files : p.dir = files[p].by)
    /\ [](\A u \in UserIds :
            LET s == sessions[u].s
                vtk == [dir |-> u, name |-> "model.vtkjs"]
            IN  /\ s.intersection_matrix # Absent
                     => /\ Value(s.intersection_matrix).mesh = Value(s.simulation_geo)
                        /\ Value(s.intersection_matrix).context = MainContext(s)
                /\ s.vtk_path # Absent
                     => /\ vtk \in DOMAIN files
                        /\ files[vtk] = [by |-> u, data |-> Value(s.vtk_path)])
    /\ [][\A u \in UserIds :
            sessions'[u] = sessions[u]
                => \A p \in DOMAIN files :
                       p.dir = u => (p \in DOMAIN files' /\ files'[p] = files[p])]_vars

\* two sessions with different models have each a result and a visualization
\* cached, and each has its own results.mtx on disk
C21_Witness ==
    /\ \A u \in UserIds :
          /\ sessions[u].at = "idle"
          /\ sessions[u].s.radiation_values # Absent
          /\ sessions[u].s.vtk_path # Absent
          /\ [dir |-> u, name |-> "results.mtx"] \in DOMAIN files
    /\ sessions["u1"].s.hb_model # sessions["u2"].s.hb_model
    /\ files[[dir |-> "u1", name |-> "results.mtx"]].data
         # files[[dir |-> "u2", name |-> "results.mtx"]].data

\* C22: a stored IntersectionMatrix was computed with the sensors moved along
\* their normals by the offset distance of the session, the value of the
\* 'Offset Distance' input.
C22_MatrixUsesOffset ==
    IntersectionCached => Value(ss.intersection_matrix).offset_dist = ss.offset_distance

\* the result run_simulation stores for the inputs of session s when nothing
\* is cached and the tool ends with outcome
FreshResult(s, h, outcome) ==
    LET bare == [s EXCEPT !.sky_matrix = Absent, !.intersection_matrix = Absent,
                          !.radiation_values = Absent]
    IN  run_simulation(bare, h, TRUE, outcome).s.radiation_values

\* C23: a RadiationResult that is stored when a run of the script has ended is
\* the result of the session's weather file, run period, sky density,
\* average-irradiance flag, benefit flag, balance temperature, ground
\* reflectance, north angle, study mesh and context geometry as they are now.
C23_NoStaleResult ==
    (pc = "idle" /\ ResultCached)
        => ss.radiation_values = FreshResult(ss, host, Value(ss.sky_matrix).outcome)

\* C24: a triggered run_simulation with a weather file and a study mesh and an
\* empty context stores, unless it raises, a RadiationResult of a matrix
\* computed without context.
C24_EmptyContextRuns ==
    [][(/\ pc = "simulate"
        /\ Triggered
        /\ ss.sky_file_path # None
        /\ ss.simulation_geo # Absent
        /\ MainContext(ss) = <<>>
        /\ ~ResultCached)
          => \/ pc' = "idle"
             \/ /\ ss'.radiation_values # Absent
                /\ Value(ss'.radiation_values).int.context = <<>>]_vars

\* the signed sky array of a stored run in benefit mode, as the difference of
\* the gendaymtx values of the heating and of the cooling series
SignedSkyOf(run, heating, cooling) ==
    LET density == IF run.high THEN 2 ELSE 1
        filtered == Len(run.run_period) # YearHours
        wea1 == IF filtered THEN filter_by_analysis_period(heating, run.run_period)
                ELSE heating
        wea2 == IF filtered THEN filter_by_analysis_period(cooling, run.run_period)
                ELSE cooling
        wea_duration == IF run.avg_irr THEN 1000
                        ELSE IF filtered THEN Len(run.run_period) ELSE YearHours
        benefit == run_gendaymtx(wea1, wea_duration, density, run.outcome)
        harm == run_gendaymtx(wea2, wea_duration, density, run.outcome)
        mtx == mtx_data(run)
    IN  \A c \in 1 .. 2 :
            /\ Len(mtx[c]) = Len(benefit[c])
            /\ Len(mtx[c]) = Len(harm[c])
            /\ \A k \in 1 .. Len(mtx[c]) : mtx[c][k] = benefit[c][k] - harm[c][k]

\* C25: the benefit split puts each hour of the EPW in one of three cases: an
\* hour colder than the balance temperature less 2 has its direct and diffuse
\* values in the heating series and zeros in the cooling series; an hour
\* warmer than the balance temperature plus 2 has them in the cooling series
\* and zeros in the heating series; every other hour, the two edges included,
\* has zeros in both.  Both series have the length of the year, and the signed
\* sky array is heating less cooling, element by element.
C25_BenefitSplit ==
    (/\ SkyCached
     /\ Value(ss.sky_matrix).use_benefit
     /\ EndsWith(Value(ss.sky_matrix).file, ".epw"))
        => LET run == Value(ss.sky_matrix)
               split == split_for_benefit(run.file, run.bal_temp)
               zero == [dir |-> 0, dif |-> 0]
           IN  /\ Len(split[1]) = YearHours
               /\ Len(split[2]) = YearHours
               /\ \A h \in Hours :
                     LET rec == EpwRecord(run.file, h)
                         full == [dir |-> rec.dir, dif |-> rec.dif]
                     IN  /\ rec.temp < run.bal_temp - 2
                              => (split[1][h] = full /\ split[2][h] = zero)
                         /\ rec.temp > run.bal_temp + 2
                              => (split[1][h] = zero /\ split[2][h] = full)
                         /\ (run.bal_temp - 2 <= rec.temp /\ rec.temp <= run.bal_temp + 2)
                              => (split[1][h] = zero /\ split[2][h] = zero)
               /\ SignedSkyOf(run, split[1], split[2])

\* a result is stored in benefit mode for an EPW that has a heating hour, a
\* cooling hour and an hour at the upper edge of the band
C25_Witness ==
    /\ pc = "display"
    /\ ResultCached
    /\ ss.use_benefit
    /\ EndsWith(ss.sky_file_path, ".epw")
    /\ Value(ss.sky_matrix).outcome = "ok"
    /\ \E h \in Hours : EpwRecord(ss.sky_file_path, h).temp < ss.balance_temperature - 2
    /\ \E h \in Hours : EpwRecord(ss.sky_file_path, h).temp > ss.balance_temperature + 2
    /\ \E h \in Hours : EpwRecord(ss.sky_file_path, h).temp = ss.balance_temperature + 2

\* C26: a run of the script in which only the benefit checkbox or the balance
\* temperature has changed leaves the stored IntersectionMatrix as it is.
C26_BenefitKeepsIntersection ==
    [][(/\ pc = "inputs"
        /\ pc' = "simulate"
        /\ changed' # {}
        /\ changed' \subseteq {"use_benefit", "in_bal_temp"})
          => ss'.intersection_matrix = ss.intersection_matrix]_vars

LegendWidgets == {"over_min_max", "in_leg_min", "in_leg_max", "in_seg_count"}

\* C27: a run of the script in which only settings of the legend have changed
\* leaves the stored sky matrix, IntersectionMatrix and RadiationResult as
\* they are.
C27_LegendKeepsArtifacts ==
    [][(/\ pc = "inputs"
        /\ pc' = "simulate"
        /\ changed' # {}
        /\ changed' \subseteq LegendWidgets)
          => ArtifactsUnchanged]_vars

\* C28: new_context, run for a change of the context geometry, leaves the
\* study mesh and every input of the session as they are, whatever the context
\* data hold: it changes the context geometry and clears the
\* IntersectionMatrix, the RadiationResult and the visualization only.
C28_NewContextKeepsMesh ==
    [][(pc = "idle" /\ w'.context_data # w.context_data)
          => /\ ss'.simulation_geo = ss.simulation_geo
             /\ ss' = [ss EXCEPT !.context_geo = ss'.context_geo,
                                 !.intersection_matrix = Absent,
                                 !.radiation_values = Absent,
                                 !.vtk_path = Absent]]_vars

\* C29: whenever a visualization is stored, a RadiationResult is stored and
\* the visualization is the one of that result and of the session's legend
\* settings, units and colors as they are now.
C29_VisualizationIsCurrent ==
    ss.vtk_path # Absent => (ResultCached /\ Value(ss.vtk_path) = VtkRun(ss))

\* a visualization is stored that was written again after the legend was
\* overridden and its minimum changed
C29_Witness ==
    /\ pc = "idle"
    /\ ss.vtk_path # Absent
    /\ ss.override_min_max
    /\ ss.legend_min = 10

\* C30: the directions of a stored IntersectionMatrix are 2 * P, P being the
\* number of sky patches of the density it was computed for; the first P are
\* the vectors of the dome turned about the vertical by the north angle (the
\* height kept, the quarter moved on by north / 90), and the entry at P + j is
\* the reverse of the entry at j.
C30_Directions ==
    IntersectionCached =>
        LET run == Value(ss.intersection_matrix)
            P == IF run.high_res THEN 577 ELSE 145
            dome == dome_vectors(run.high_res)
            V == vectors(run.north, run.high_res)
        IN  /\ Len(V) = 2 * P
            /\ Len(dome) = P
            /\ \A j \in 1 .. P :
                  /\ V[j].z = dome[j].z
                  /\ V[j].q = (dome[j].q + (run.north \div 90)) % 4
                  /\ V[P + j].z = 0 - V[j].z
                  /\ V[P + j].q = (V[j].q + 2) % 4
            /\ \A i \in 1 .. Len(run.mesh) : Len(int_mtx(run)[i]) = 2 * P

\* an IntersectionMatrix is stored for a north of a quarter turn
C30_Witness ==
    /\ pc = "display"
    /\ IntersectionCached
    /\ ResultCached
    /\ Value(ss.intersection_matrix).north = 90
    /\ calls = <<"sky", "vis", "combine">>

\* a gendaymtx run of the step failed: the step stored a sky matrix of a run
\* that wrote nothing, or only a part of the matrix
ToolFailed ==
    /\ ~SkyCached
    /\ ss'.sky_matrix # Absent
    /\ Value(ss'.sky_matrix).outcome # "ok"

\* the weather file, the study mesh and a context geometry (of the study
\* geometry or of its own, empty or not) are there
InputsPresent ==
    /\ ss.sky_file_path # None
    /\ ss.simulation_geo # Absent
    /\ (ss.sim_context_geo # Absent \/ ss.context_geo # Absent)

\* C31: with 'Automatically Re-run' checked, a call of run_simulation that
\* finds the weather file, the study mesh and the context geometry present,
\* and in which no external tool fails, leaves a RadiationResult stored and
\* goes on to display_results: a result that a change of an input cleared is
\* computed again in the same run of the script.
C31_AutoRerunEndsWithResult ==
    [][(/\ pc = "simulate"
        /\ w.auto_rerun
        /\ InputsPresent
        /\ ~ToolFailed)
          => /\ pc' = "display"
             /\ ss'.radiation_values # Absent]_vars

\* C32: whenever a model is stored in hb_model, the study mesh and the context
\* geometry of the session are the mesh of the sensor grids and the faces and
\* shades of that model, also after the upload of a model without a sensor
\* grid that has a mesh; and a stored visualization holds the values of a
\* result that was computed for the mesh of the model it was written with.
C32_ModelMatchesGeometry ==
    /\ ss.hb_model # None
         => /\ ss.simulation_geo = Some(ModelMesh(ss.hb_model))
            /\ ss.context_geo = Some(ModelContext(ss.hb_model))
    /\ (ss.vtk_path # Absent /\ Value(ss.vtk_path).hb_model # None)
         => Value(ss.vtk_path).values.int.mesh = ModelMesh(Value(ss.vtk_path).hb_model)

====
